---------------------------- MODULE Spec2Model ----------------------------
(***************************************************************************)
(* Conversation orchestration of abharatu/agenticai.                       *)
(*                                                                         *)
(* One run is modelled from its entry to its exit, along one of four       *)
(* entry points:                                                           *)
(*   "direct"   POST /api/chat -> performModelChat     (ai/server.js)      *)
(*   "mcp"      POST /api/chat -> performMCPModelChat  (ai/server.js)      *)
(*   "example"  runExample                             (ai/agent.js)       *)
(*   "models"   GET /api/models                        (ai/server.js)      *)
(* The model provider, the tool servers, and the HTTP response object are  *)
(* the environment: their answers are chosen nondeterministically.         *)
(*                                                                         *)
(* Specifications:                                                         *)
(*   Spec        one run along one entry point                             *)
(*   CancelSpec  Spec, with a caller that may disconnect during the run    *)
(*   ConcSpec    several performMCPModelChat requests in flight at once,   *)
(*               and runExample's prompts on their checkpointer            *)
(*   UISpec      the chat UI (chatui: App and the ChatUI component)        *)
(*   ConvSpec    the conversion of req.body.messages to model messages     *)
(*   ToolSpec    one tool call at a custom MCP server (ai/custommcp)       *)
(*   ShellSpec   the MCP configuration state of the app shell (chatui App) *)
(***************************************************************************)
EXTENDS Naturals, Sequences, FiniteSets, TLC

(***************************************************************************)
(* Bounds of the model.                                                    *)
(***************************************************************************)
MaxReqLen == 1
MaxToolCalls == 2
MaxTurns == 2
MaxFragments == 2

(***************************************************************************)
(* Program constants.                                                      *)
(***************************************************************************)
NumPrompts == 2

(***************************************************************************)
(* Messages.                                                               *)
(***************************************************************************)
Msg(role, content) ==
    [role |-> role, content |-> content, tool_calls |-> <<>>,
     tool_call_id |-> 0, name |-> ""]

HumanMessage(content) == Msg("human", content)

AIMessage(content) == Msg("ai", content)

SystemMessage(content) == Msg("system", content)

Undefined == Msg("undefined", "")

Roles == {"user", "assistant", "system", "tool"}

ReqMsg == [role : Roles, content : {"q"}]

RECURSIVE SeqsUpTo(_, _)
SeqsUpTo(S, n) ==
    IF n = 0 THEN {<<>>}
    ELSE LET shorter == SeqsUpTo(S, n - 1)
         IN  shorter \cup {Append(s, x) : s \in shorter, x \in S}

\* req.body.messages: either no array at all, or an array of messages.
Bodies ==
    {[isArray |-> FALSE, items |-> <<>>]}
        \cup {[isArray |-> TRUE, items |-> s] : s \in SeqsUpTo(ReqMsg, MaxReqLen)}

\* A conversion that keeps the role 'system'.
ToLcMessageKeepSystem(msg) ==
    IF msg.role = "user" THEN HumanMessage(msg.content)
    ELSE IF msg.role = "system" THEN SystemMessage(msg.content)
    ELSE AIMessage(msg.content)

\* msg.role === 'user' ? new HumanMessage(msg.content) : new AIMessage(msg.content)
ToLcMessage(msg) ==
    IF msg.role = "user" THEN HumanMessage(msg.content) ELSE AIMessage(msg.content)

LcMessages(items) == [i \in 1..Len(items) |-> ToLcMessage(items[i])]

\* !Array.isArray(messages) || messages.length === 0
InvalidBody(body) == ~body.isArray \/ Len(body.items) = 0

\* A reply made of the last message alone.
LastContent(ms) == IF ms = <<>> THEN "" ELSE ms[Len(ms)].content

\* messages.map(m => m.content).join('')
RECURSIVE JoinContents(_)
JoinContents(ms) ==
    IF ms = <<>> THEN "" ELSE ms[1].content \o JoinContents(Tail(ms))

RECURSIVE JoinStrings(_)
JoinStrings(ss) ==
    IF ss = <<>> THEN "" ELSE ss[1] \o JoinStrings(Tail(ss))

(***************************************************************************)
(* Provider errors: with status_code 404, or without a status hint.        *)
(***************************************************************************)
NoError == [status_code |-> 0, message |-> ""]

Errors == {[status_code |-> 404, message |-> "not found"],
           [status_code |-> 0, message |-> "boom"]}

(***************************************************************************)
(* The HTTP response object (Express on node's ServerResponse).            *)
(***************************************************************************)
NewResponse ==
    [statusCode |-> 200, headersSent |-> FALSE, sentStatus |-> 0,
     contentType |-> "", sink |-> <<>>, body |-> "", ended |-> FALSE,
     lateWrite |-> FALSE, aborted |-> FALSE]

\* res.setHeader('Content-Type', ...)
ResSetType(r, type) == [r EXCEPT !.contentType = type]

\* A write that sends the chunk twice.
ResWriteTwice(r, chunk) ==
    IF r.ended THEN [r EXCEPT !.lateWrite = TRUE]
    ELSE [r EXCEPT !.headersSent = TRUE,
                   !.sentStatus = IF r.headersSent THEN r.sentStatus ELSE r.statusCode,
                   !.sink = r.sink \o <<chunk, chunk>>]

\* res.write(chunk): the first write sends the headers with the status set so far.
ResWrite(r, chunk) ==
    IF r.ended THEN [r EXCEPT !.lateWrite = TRUE]
    ELSE [r EXCEPT !.headersSent = TRUE,
                   !.sentStatus = IF r.headersSent THEN r.sentStatus ELSE r.statusCode,
                   !.sink = Append(r.sink, chunk)]

\* res.end()
ResEnd(r) ==
    [r EXCEPT !.headersSent = TRUE,
              !.sentStatus = IF r.headersSent THEN r.sentStatus ELSE r.statusCode,
              !.ended = TRUE]

\* res.status(code).json(body) throws once the headers are sent.
JsonThrows(r) == r.headersSent

ResJson(r, code, body) ==
    IF JsonThrows(r) THEN [r EXCEPT !.statusCode = code]
    ELSE [r EXCEPT !.statusCode = code, !.headersSent = TRUE, !.sentStatus = code,
                   !.contentType = "application/json", !.body = body, !.ended = TRUE]

VARIABLES
    path,          \* the entry point of the run
    streamCfg,     \* ModelConfig.stream
    body,          \* req.body.messages
    pc,            \* position of the handler
    chat,          \* "none", "model" (Model()), "agent" ({agent, client}), "null"
    modelCreated,  \* a model instance was constructed
    client,        \* the MCP client: "none", "open", "closed"
    closeCount,    \* calls of client.close()
    transcript,    \* lcMessages / the graph's state.messages
    node,          \* the graph: "idle", "llm", "tools", "end", "failed"
    modelInput,    \* the messages the last Model Invoker call received
    modelCalls,    \* Model Invoker calls of the run
    toolInvocations, \* tool invocations of the run
    calls,         \* the tool calls the tools node is executing
    pending,       \* indexes of the tool calls in flight
    toolOut,       \* index -> ToolMessage of the completed tool calls
    completed,     \* indexes of the last tools node's calls in completion order
    fragments,     \* stream fragments consumed so far by the handler's loop
    finalResult,   \* accumulator of the streamed message or the invoke result
    err,           \* the error the run failed with
    res,           \* the HTTP response
    thrown,        \* an exception is propagating through a finally block
    promptIdx,     \* runExample: index of the prompt being run
    exitCode,      \* runExample: process.exit code, 99 while running
    cancelled,     \* the caller disconnected (req 'close')
    clients,       \* concurrent sessions: the MCP client objects, by identity
    sess,          \* concurrent sessions: the locals of each request's handler
    ex,            \* concurrent sessions: runExample's threads and checkpoints
    ui,            \* the chat UI: the state of the ChatUI component
    tool,          \* a custom MCP tool server: the tool call it is handling
    shell          \* the app shell (App): its MCP configuration state

\* The variables of the single run from its entry to its exit.
handlerVars == <<path, streamCfg, body, pc, chat, modelCreated, client, closeCount,
                 transcript, node, modelInput, modelCalls, toolInvocations, calls,
                 pending, toolOut, completed, fragments, finalResult, err, res,
                 thrown, promptIdx, exitCode, cancelled>>

\* The variables of the concurrent sessions, the chat UI, the tool servers and
\* the app shell.
otherVars == <<clients, sess, ex, ui, tool, shell>>

vars == <<handlerVars, otherVars>>

\* The locals of a handler before it runs.
InitRun ==
    /\ chat = "none"
    /\ modelCreated = FALSE
    /\ client = "none"
    /\ closeCount = 0
    /\ transcript = <<>>
    /\ node = "idle"
    /\ modelInput = <<>>
    /\ modelCalls = 0
    /\ toolInvocations = 0
    /\ calls = <<>>
    /\ pending = {}
    /\ toolOut = <<>>
    /\ completed = <<>>
    /\ fragments = <<>>
    /\ finalResult = Undefined
    /\ err = NoError
    /\ res = NewResponse
    /\ thrown = FALSE
    /\ promptIdx = 0
    /\ exitCode = 99
    /\ cancelled = FALSE

\* No concurrent session.
NoSessions ==
    /\ clients = <<>>
    /\ sess = <<>>
    /\ ex = [idx |-> 0, threads |-> <<>>, saved |-> <<>>, input |-> <<>>]

\* No chat UI.
NoChatUI == ui = [pc |-> "none"]

\* No tool server handling a call.
NoToolServer == tool = [pc |-> "none"]

\* No app shell.
NoAppShell == shell = [pc |-> "none"]

Init ==
    /\ path \in {"direct", "mcp", "example", "models"}
    /\ streamCfg \in (IF path \in {"example", "models"} THEN {FALSE} ELSE BOOLEAN)
    /\ body \in (IF path \in {"example", "models"}
                 THEN {[isArray |-> TRUE, items |-> <<>>]} ELSE Bodies)
    /\ pc = CASE path = "example" -> "ex_init"
               [] path = "models" -> "models_recv"
               [] OTHER -> "recv"
    /\ InitRun
    /\ NoToolServer
    /\ NoAppShell
    /\ NoSessions
    /\ NoChatUI


(***************************************************************************)
(* Stream fragments and their merge (concat of @langchain/core).           *)
(***************************************************************************)
Deltas == {"", "He", "llo"}

AIMessageChunk(delta) == Msg("ai", delta)

\* A merge that puts the new fragment in front.
ConcatPrepend(acc, chunk) ==
    [acc EXCEPT !.content = chunk.content \o acc.content,
                !.tool_calls = chunk.tool_calls \o acc.tool_calls]

\* concat(finalResult, chunk)
Concat(acc, chunk) ==
    [acc EXCEPT !.content = acc.content \o chunk.content,
                !.tool_calls = acc.tool_calls \o chunk.tool_calls]

\* if (finalResult) finalResult = concat(finalResult, chunk); else finalResult = chunk
Merge(acc, chunk) == IF acc = Undefined THEN chunk ELSE Concat(acc, chunk)

\* The status the catch blocks answer with: err.status_code === 404 ? 404 : 500
CatchStatus(e) == IF e.status_code = 404 THEN 404 ELSE 500

(***************************************************************************)
(* app.post('/api/chat'): choice of the handler, and its validation.       *)
(***************************************************************************)
\* A validation that lets the empty array through.
ValidateArrayOnly(b) == ~b.isArray

Validate(b) == InvalidBody(b)

Dispatch ==
    /\ pc = "recv"
    /\ IF Validate(body)
       THEN /\ res' = ResJson(res, 400, "No messages provided")
            /\ pc' = "done"
       ELSE /\ pc' = "acquire"
            /\ UNCHANGED res
    /\ UNCHANGED <<otherVars, cancelled>>
    /\ UNCHANGED <<path, streamCfg, body, chat, modelCreated, client, closeCount,
                   transcript, node, modelInput, modelCalls, toolInvocations,
                   calls, pending, toolOut, completed, fragments, finalResult,
                   err, thrown, promptIdx, exitCode>>

(***************************************************************************)
(* performModelChat: the direct model, no tools.                           *)
(***************************************************************************)
\* const chat = await Model(modelConfig); lcMessages; the choice of the branch.
AcquireDirect ==
    /\ pc = "acquire"
    /\ path = "direct"
    /\ \E built \in BOOLEAN :
         IF built
         THEN /\ modelCreated' = TRUE
              /\ chat' = "model"
              /\ transcript' = LcMessages(body.items)
              /\ node' = "llm"
              /\ res' = IF streamCfg THEN ResSetType(res, "text/plain") ELSE res
              /\ pc' = IF streamCfg THEN "stream_open" ELSE "invoke"
         ELSE /\ pc' = "threw"
              /\ UNCHANGED <<modelCreated, chat, transcript, node, res>>
    /\ UNCHANGED <<otherVars, cancelled>>
    /\ UNCHANGED <<path, streamCfg, body, client, closeCount, modelInput,
                   modelCalls, toolInvocations, calls, pending, toolOut,
                   completed, fragments, finalResult, err, thrown, promptIdx, exitCode>>

\* catch (err) of both branches of performModelChat.
DirectCatch(e) ==
    /\ err' = e
    /\ node' = "failed"
    /\ res' = ResJson(res, CatchStatus(e), "error")
    /\ pc' = IF JsonThrows(res) THEN "threw" ELSE "done"

\* const stream = await chat.stream(lcMessages)
DirectStreamOpen ==
    /\ pc = "stream_open"
    /\ modelCalls' = modelCalls + 1
    /\ modelInput' = transcript
    /\ \/ /\ pc' = "streaming"
          /\ UNCHANGED <<err, node, res>>
       \/ \E e \in Errors : DirectCatch(e)
    /\ UNCHANGED <<otherVars, cancelled>>
    /\ UNCHANGED <<path, streamCfg, body, chat, modelCreated, client, closeCount,
                   transcript, toolInvocations, calls, pending, toolOut,
                   completed, fragments, finalResult, thrown, promptIdx, exitCode>>

\* One iteration of for await (const chunk of stream).
DirectStreamChunk ==
    /\ pc = "streaming"
    /\ Len(fragments) < MaxFragments
    /\ \E d \in Deltas :
         LET chunk == AIMessageChunk(d)
         IN  /\ fragments' = Append(fragments, chunk)
             /\ finalResult' = Merge(finalResult, chunk)
             /\ res' = ResWrite(res, chunk.content)
    /\ UNCHANGED <<otherVars, cancelled>>
    /\ UNCHANGED <<path, streamCfg, body, pc, chat, modelCreated, client,
                   closeCount, transcript, node, modelInput, modelCalls,
                   toolInvocations, calls, pending, toolOut, completed, err,
                   thrown, promptIdx, exitCode>>

\* The fragment sequence ends: res.end()
DirectStreamEnd ==
    /\ pc = "streaming"
    /\ res' = ResEnd(res)
    /\ node' = "end"
    /\ pc' = "done"
    /\ UNCHANGED <<otherVars, cancelled>>
    /\ UNCHANGED <<path, streamCfg, body, chat, modelCreated, client, closeCount,
                   transcript, modelInput, modelCalls, toolInvocations, calls,
                   pending, toolOut, completed, fragments, finalResult, err,
                   thrown, promptIdx, exitCode>>

\* The fragment sequence ends with an error.
DirectStreamFail ==
    /\ pc = "streaming"
    /\ \E e \in Errors : DirectCatch(e)
    /\ UNCHANGED <<otherVars, cancelled>>
    /\ UNCHANGED <<path, streamCfg, body, chat, modelCreated, client, closeCount,
                   transcript, modelInput, modelCalls, toolInvocations, calls,
                   pending, toolOut, completed, fragments, finalResult,
                   thrown, promptIdx, exitCode>>

\* Non-streaming: const result = await chat.invoke(lcMessages)
DirectInvoke ==
    /\ pc = "invoke"
    /\ modelCalls' = modelCalls + 1
    /\ modelInput' = transcript
    /\ \/ \E c \in {"", "hello"} :
            /\ finalResult' = AIMessage(c)
            /\ IF c = ""
               THEN /\ res' = ResJson(res, 500, "No content in OpenAI response")
                    /\ node' = "failed"
               ELSE /\ res' = ResJson(res, 200, c)
                    /\ node' = "end"
            /\ pc' = "done"
            /\ UNCHANGED err
       \/ /\ \E e \in Errors : DirectCatch(e)
          /\ UNCHANGED finalResult
    /\ UNCHANGED <<otherVars, cancelled>>
    /\ UNCHANGED <<path, streamCfg, body, chat, modelCreated, client, closeCount,
                   transcript, toolInvocations, calls, pending, toolOut,
                   completed, fragments, thrown, promptIdx, exitCode>>


(***************************************************************************)
(* The agent graph: llm node, tools node (ToolNode of                      *)
(* @langchain/langgraph/prebuilt), and the router between them.            *)
(* createReactAgent builds the same two-node graph for the MCP handler.    *)
(***************************************************************************)
ToolNames == {"get_time", "bad_tool"}

ToolCall(id, name) == [id |-> id, name |-> name]

ToolOkContent == "a.txt"

ToolErrorContent == "Error: tool failed"

\* The ToolMessage a tool call ends in; a failed call ends in an error message.
ToolMessage(call, ok) ==
    [role |-> "tool", content |-> IF ok THEN ToolOkContent ELSE ToolErrorContent,
     tool_calls |-> <<>>, tool_call_id |-> call.id, name |-> call.name]

IsErrorResult(m) == m.role = "tool" /\ m.content = ToolErrorContent

\* The tool calls of a request for n tools: ids unique in the run, names by position.
ToolCalls(k, n) ==
    [i \in 1..n |-> ToolCall(10 * k + i, IF i % 2 = 1 THEN "get_time" ELSE "bad_tool")]

\* The assistant messages the model may answer its k-th call with: a final
\* answer, or (below the turn bound) a request for 1..MaxToolCalls tools.
ModelReplies(k) ==
    {AIMessage("ok")}
        \cup {[role |-> "ai", content |-> "run", tool_calls |-> ToolCalls(k, n),
               tool_call_id |-> 0, name |-> ""] :
                 n \in 1..(IF k < MaxTurns THEN MaxToolCalls ELSE 0)}

\* A router that ends the run whatever the last message asks for.
RouterAlwaysEnd(ms) == "end"

\* A router that never ends the run.
RouterAlwaysTools(ms) == "tools"

\* addConditionalEdges("llm", ...): "tools" iff the last message has tool calls.
Router(ms) ==
    IF Len(ms[Len(ms)].tool_calls) > 0 THEN "tools" ELSE "end"

\* An llmNode that puts the system message in front on every call.
LlmInputAlways(ms) == <<SystemMessage("sys")>> \o ms

\* llmNode: the system message is put in front of a single human message.
LlmInput(ms) ==
    IF Len(ms) = 1 /\ ms[1].role = "human"
    THEN <<SystemMessage("sys")>> \o ms
    ELSE ms

\* Tool outputs in the order the calls completed in.
ToolOutputsByCompletion(out, done) == [i \in 1..Len(done) |-> out[done[i]]]

\* Promise.all over the tool calls: the outputs in the order of the requests.
ToolOutputs(out, done) == out

\* A tools node that fails the run when one of its tool calls failed.
AfterToolsFailOnError(out) ==
    IF \E i \in 1..Len(out) : IsErrorResult(out[i]) THEN "failed" ELSE "llm"

\* addEdge("tools", "llm"): a failed tool call is a message like any other.
AfterTools(out) == "llm"

\* A stream update of the graph, as performMCPModelChat reads it.
Update(agentMsgs, toolMsgs) == [agent |-> agentMsgs, tools |-> toolMsgs]

\* concat(finalResult, chunk) on two updates.
MergeUpdate(acc, chunk) ==
    IF acc = Undefined THEN chunk
    ELSE [agent |-> acc.agent \o chunk.agent, tools |-> acc.tools \o chunk.tools]

\* chunk.tools.messages.map(m => `(wrench)${m.name}:${m.content}`).join('')
RECURSIVE JoinToolLines(_)
JoinToolLines(ms) ==
    IF ms = <<>> THEN ""
    ELSE "@" \o ms[1].name \o ":" \o ms[1].content \o JoinToolLines(Tail(ms))

\* What the streaming loop of performMCPModelChat writes for one update.
ForwardUpdate(r, chunk) ==
    LET r1 == IF chunk.agent # <<>> THEN ResWrite(r, JoinContents(chunk.agent)) ELSE r
    IN  IF chunk.tools # <<>> THEN ResWrite(r1, JoinToolLines(chunk.tools)) ELSE r1

Streaming == path = "mcp" /\ streamCfg

\* The handler's loop body for one update of a streamed agent run.
Consume(chunk) ==
    IF Streaming
    THEN /\ fragments' = Append(fragments, chunk)
         /\ finalResult' = MergeUpdate(finalResult, chunk)
         /\ res' = ForwardUpdate(res, chunk)
    ELSE UNCHANGED <<fragments, finalResult, res>>

\* The llm node: one Model Invoker call, then the router.
LlmNode ==
    /\ pc = "graph"
    /\ node = "llm"
    /\ modelCalls' = modelCalls + 1
    /\ modelInput' = IF path = "example" THEN LlmInput(transcript) ELSE transcript
    /\ \/ \E m \in ModelReplies(modelCalls + 1) :
            /\ transcript' = Append(transcript, m)
            /\ node' = Router(transcript')
            /\ Consume(Update(<<m>>, <<>>))
            /\ UNCHANGED err
       \/ \E e \in Errors :
            /\ err' = e
            /\ node' = "failed"
            /\ UNCHANGED <<transcript, fragments, finalResult, res>>
    /\ completed' = <<>>
    /\ UNCHANGED <<otherVars, cancelled>>
    /\ UNCHANGED <<path, streamCfg, body, pc, chat, modelCreated, client,
                   closeCount, toolInvocations, calls, pending, toolOut,
                   thrown, promptIdx, exitCode>>

\* The tools node starts every tool call of the last message.
ToolsStart ==
    /\ pc = "graph"
    /\ node = "tools"
    /\ calls = <<>>
    /\ calls' = transcript[Len(transcript)].tool_calls
    /\ pending' = 1..Len(calls')
    /\ toolOut' = [i \in 1..Len(calls') |-> Undefined]
    /\ completed' = <<>>
    /\ toolInvocations' = toolInvocations + Len(calls')
    /\ UNCHANGED <<otherVars, cancelled>>
    /\ UNCHANGED <<path, streamCfg, body, pc, chat, modelCreated, client,
                   closeCount, transcript, node, modelInput, modelCalls,
                   fragments, finalResult, err, res, thrown, promptIdx, exitCode>>

\* One tool call completes, with a payload or with an error.
ToolComplete(i) ==
    /\ pc = "graph"
    /\ node = "tools"
    /\ i \in pending
    /\ \E ok \in BOOLEAN : toolOut' = [toolOut EXCEPT ![i] = ToolMessage(calls[i], ok)]
    /\ pending' = pending \ {i}
    /\ completed' = Append(completed, i)
    /\ UNCHANGED <<otherVars, cancelled>>
    /\ UNCHANGED <<path, streamCfg, body, pc, chat, modelCreated, client,
                   closeCount, transcript, node, modelInput, modelCalls,
                   toolInvocations, calls, fragments, finalResult, err, res,
                   thrown, promptIdx, exitCode>>

\* All tool calls completed: their messages are appended; addEdge("tools", "llm").
ToolsJoin ==
    /\ pc = "graph"
    /\ node = "tools"
    /\ calls # <<>>
    /\ pending = {}
    /\ LET outputs == ToolOutputs(toolOut, completed)
       IN  /\ transcript' = transcript \o outputs
           /\ Consume(Update(<<>>, outputs))
    /\ node' = AfterTools(toolOut)
    /\ calls' = <<>>
    /\ toolOut' = <<>>
    /\ UNCHANGED <<otherVars, cancelled>>
    /\ UNCHANGED <<path, streamCfg, body, pc, chat, modelCreated, client,
                   closeCount, modelInput, modelCalls, toolInvocations, pending,
                   completed, err, thrown, promptIdx, exitCode>>


(***************************************************************************)
(* ModelWithMCPFile and performMCPModelChat.                               *)
(***************************************************************************)
\* How far ModelWithMCPFile gets: every failure is caught and answered by null.
AcquireOutcomes == {"ok", "clientThrows", "modelThrows", "toolsThrow", "agentThrows"}

\* CreatMCPClient: the client exists unless its constructor threw.
ClientAfter(outcome) == IF outcome = "clientThrows" THEN "none" ELSE "open"

\* const chat = await ModelWithMCPFile(modelConfig, mcpConfig); lcMessages; the branch.
AcquireMcp ==
    /\ pc = "acquire"
    /\ path = "mcp"
    /\ \E outcome \in AcquireOutcomes :
         /\ client' = ClientAfter(outcome)
         /\ modelCreated' = (outcome # "modelThrows")
         /\ chat' = IF outcome = "ok" THEN "agent" ELSE "null"
    /\ transcript' = LcMessages(body.items)
    /\ res' = IF streamCfg THEN ResSetType(res, "text/plain") ELSE res
    /\ pc' = "mcp_try"
    /\ UNCHANGED <<otherVars, cancelled>>
    /\ UNCHANGED <<path, streamCfg, body, closeCount, node, modelInput,
                   modelCalls, toolInvocations, calls, pending, toolOut,
                   completed, fragments, finalResult, err, thrown, promptIdx,
                   exitCode>>

TypeError == [status_code |-> 0, message |-> "Cannot read properties of null"]

\* res.write(`Error: ${err.message}`); res.end()
WriteErrorText(r, e) == ResEnd(ResWrite(r, "Error: " \o e.message))

\* The catch block of the streaming branch.
McpStreamCatch(r, e) ==
    IF e.status_code = 404 THEN ResJson(r, 404, "error") ELSE WriteErrorText(r, e)

\* Whether the catch block itself throws: json after the headers went out, or
\* res.write of an object in the non-streaming branch.
McpCatchThrows(r, e) ==
    IF e.status_code = 404 THEN JsonThrows(r) ELSE ~streamCfg

\* The catch block of either branch.
McpCatch(r, e) ==
    IF streamCfg THEN McpStreamCatch(r, e)
    ELSE IF e.status_code = 404 THEN ResJson(r, 404, "error") ELSE r

\* try { chat.agent.stream(...) / chat.agent.invoke(...) }: with chat === null both
\* the call and the finally block's chat.client throw a TypeError.
McpBegin ==
    /\ pc = "mcp_try"
    /\ IF chat = "null"
       THEN /\ err' = TypeError
            /\ node' = "failed"
            /\ res' = McpCatch(res, TypeError)
            /\ pc' = "threw"
       ELSE /\ node' = "llm"
            /\ pc' = "graph"
            /\ UNCHANGED <<err, res>>
    /\ UNCHANGED <<otherVars, cancelled>>
    /\ UNCHANGED <<path, streamCfg, body, chat, modelCreated, client, closeCount,
                   transcript, modelInput, modelCalls, toolInvocations, calls,
                   pending, toolOut, completed, fragments, finalResult, thrown,
                   promptIdx, exitCode>>

\* The agent run ended: res.end(), or res.json({reply}) over result.messages.
McpDone ==
    /\ pc = "graph"
    /\ path = "mcp"
    /\ node = "end"
    /\ res' = IF streamCfg THEN ResEnd(res) ELSE ResJson(res, 200, JoinContents(transcript))
    /\ pc' = "mcp_finally"
    /\ UNCHANGED <<otherVars, cancelled>>
    /\ UNCHANGED <<path, streamCfg, body, chat, modelCreated, client, closeCount,
                   transcript, node, modelInput, modelCalls, toolInvocations,
                   calls, pending, toolOut, completed, fragments, finalResult,
                   err, thrown, promptIdx, exitCode>>

\* The agent run threw: the catch block of the branch.
McpFailed ==
    /\ pc = "graph"
    /\ path = "mcp"
    /\ node = "failed"
    /\ res' = McpCatch(res, err)
    /\ thrown' = McpCatchThrows(res, err)
    /\ pc' = "mcp_finally"
    /\ UNCHANGED <<otherVars, cancelled>>
    /\ UNCHANGED <<path, streamCfg, body, chat, modelCreated, client, closeCount,
                   transcript, node, modelInput, modelCalls, toolInvocations,
                   calls, pending, toolOut, completed, fragments, finalResult,
                   err, promptIdx, exitCode>>

\* finally { if (chat.client) await chat.client.close(); }
McpFinally ==
    /\ pc = "mcp_finally"
    /\ client' = "closed"
    /\ closeCount' = closeCount + 1
    /\ \E closeThrows \in BOOLEAN :
         /\ thrown' = (thrown \/ closeThrows)
         /\ pc' = IF thrown' THEN "threw" ELSE "done"
    /\ UNCHANGED <<otherVars, cancelled>>
    /\ UNCHANGED <<path, streamCfg, body, chat, modelCreated, transcript, node,
                   modelInput, modelCalls, toolInvocations, calls, pending,
                   toolOut, completed, fragments, finalResult, err, res,
                   promptIdx, exitCode>>

\* An exception left the handler. Express either leaves the response as it is
\* (the rejection is unhandled) or runs its default error handler: 500 when
\* the headers are not sent yet, else the connection is destroyed.
HandlerRejected ==
    /\ pc = "threw"
    /\ \/ UNCHANGED res
       \/ res' = IF res.headersSent
                 THEN [res EXCEPT !.aborted = TRUE]
                 ELSE ResJson(res, 500, "Internal Server Error")
    /\ pc' = "dead"
    /\ UNCHANGED <<otherVars, cancelled>>
    /\ UNCHANGED <<path, streamCfg, body, chat, modelCreated, client, closeCount,
                   transcript, node, modelInput, modelCalls, toolInvocations,
                   calls, pending, toolOut, completed, fragments, finalResult,
                   err, thrown, promptIdx, exitCode>>

(***************************************************************************)
(* runExample.                                                             *)
(***************************************************************************)
\* catch (error) { process.exit(1) }: the process ends, the finally block is not run.
ExCatch ==
    /\ pc' = "exited"
    /\ exitCode' = 1

\* client = client ?? new MultiServerMCPClient(...)
ExInit ==
    /\ pc = "ex_init"
    /\ \/ /\ client' = "open"
          /\ pc' = "ex_setup"
          /\ UNCHANGED exitCode
       \/ /\ ExCatch
          /\ UNCHANGED client
    /\ UNCHANGED <<otherVars, cancelled>>
    /\ UNCHANGED <<path, streamCfg, body, chat, modelCreated, closeCount,
                   transcript, node, modelInput, modelCalls, toolInvocations,
                   calls, pending, toolOut, completed, fragments, finalResult,
                   err, res, thrown, promptIdx>>

\* getTools (throws, or yields no tool: "No tools found"), getModel().bindTools,
\* the graph and its compilation.
ExSetup ==
    /\ pc = "ex_setup"
    /\ \/ /\ modelCreated' = TRUE
          /\ chat' = "agent"
          /\ promptIdx' = 1
          /\ pc' = "ex_prompt"
          /\ UNCHANGED exitCode
       \/ /\ ExCatch
          /\ UNCHANGED <<modelCreated, chat, promptIdx>>
    /\ UNCHANGED <<otherVars, cancelled>>
    /\ UNCHANGED <<path, streamCfg, body, client, closeCount, transcript, node,
                   modelInput, modelCalls, toolInvocations, calls, pending,
                   toolOut, completed, fragments, finalResult, err, res, thrown>>

Query(k) == IF k = 1 THEN "p1" ELSE "p2"

\* app.invoke({ messages: [new HumanMessage(example.query)] }, { thread_id })
ExPrompt ==
    /\ pc = "ex_prompt"
    /\ transcript' = <<HumanMessage(Query(promptIdx))>>
    /\ node' = "llm"
    /\ modelCalls' = 0
    /\ toolInvocations' = 0
    /\ pc' = "graph"
    /\ UNCHANGED <<otherVars, cancelled>>
    /\ UNCHANGED <<path, streamCfg, body, chat, modelCreated, client, closeCount,
                   modelInput, calls, pending, toolOut, completed, fragments,
                   finalResult, err, res, thrown, promptIdx, exitCode>>

\* The run of a prompt ended: the next prompt, or the finally block.
ExPromptDone ==
    /\ pc = "graph"
    /\ path = "example"
    /\ node = "end"
    /\ finalResult' = transcript[Len(transcript)]
    /\ IF promptIdx < NumPrompts
       THEN /\ promptIdx' = promptIdx + 1
            /\ pc' = "ex_prompt"
       ELSE /\ pc' = "ex_finally"
            /\ UNCHANGED promptIdx
    /\ UNCHANGED <<otherVars, cancelled>>
    /\ UNCHANGED <<path, streamCfg, body, chat, modelCreated, client, closeCount,
                   transcript, node, modelInput, modelCalls, toolInvocations,
                   calls, pending, toolOut, completed, fragments, err, res,
                   thrown, exitCode>>

\* The run of a prompt threw.
ExFailed ==
    /\ pc = "graph"
    /\ path = "example"
    /\ node = "failed"
    /\ ExCatch
    /\ UNCHANGED <<otherVars, cancelled>>
    /\ UNCHANGED <<path, streamCfg, body, chat, modelCreated, client, closeCount,
                   transcript, node, modelInput, modelCalls, toolInvocations,
                   calls, pending, toolOut, completed, fragments, finalResult,
                   err, res, thrown, promptIdx>>

\* finally { if (client) await client.close(); setTimeout(() => process.exit(0)) }
ExFinally ==
    /\ pc = "ex_finally"
    /\ client' = "closed"
    /\ closeCount' = closeCount + 1
    /\ \E closeThrows \in BOOLEAN : thrown' = closeThrows
    /\ pc' = "exited"
    /\ exitCode' = 0
    /\ UNCHANGED <<otherVars, cancelled>>
    /\ UNCHANGED <<path, streamCfg, body, chat, modelCreated, transcript, node,
                   modelInput, modelCalls, toolInvocations, calls, pending,
                   toolOut, completed, fragments, finalResult, err, res,
                   promptIdx>>

(***************************************************************************)
(* A model that never answers.                                             *)
(***************************************************************************)
\* await model.invoke(messages) / chat.invoke / chat.stream / the next chunk of
\* for await: the provider never answers. The calls are given no timeout and no
\* signal, so the await never returns and the handler stays where it is.
ModelNeverAnswers ==
    /\ \/ pc = "graph" /\ node = "llm"
       \/ pc \in {"invoke", "stream_open", "streaming"}
    /\ IF pc = "streaming"
       THEN UNCHANGED <<modelCalls, modelInput>>
       ELSE /\ modelCalls' = modelCalls + 1
            /\ modelInput' = IF path = "example" THEN LlmInput(transcript) ELSE transcript
    /\ pc' = "suspended"
    /\ UNCHANGED <<otherVars, cancelled>>
    /\ UNCHANGED <<path, streamCfg, body, chat, modelCreated, client, closeCount,
                   transcript, node, toolInvocations, calls, pending, toolOut,
                   completed, fragments, finalResult, err, res, thrown,
                   promptIdx, exitCode>>

(***************************************************************************)
(* app.get('/api/models').                                                 *)
(***************************************************************************)
Providers == {"ollama", "openai"}

\* fetch(`${ollamaBaseUrl}/api/tags`): answers ok, answers not ok, or throws.
FetchOutcomes == {"ok", "notOk", "throws"}

ModelList == "models"

\* The handler: only provider "ollama" is looked at; node records how the
\* fetch went ("end": the list was fetched, "failed": fetching failed).
ListModels ==
    /\ pc = "models_recv"
    /\ \E provider \in Providers, fetched \in FetchOutcomes :
         IF provider = "ollama"
         THEN IF fetched = "ok"
              THEN /\ res' = ResJson(res, 200, ModelList)
                   /\ node' = "end"
              ELSE /\ res' = ResJson(res, 404, "Failed to fetch models from Ollama")
                   /\ node' = "failed"
         ELSE UNCHANGED <<res, node>>
    /\ pc' = "done"
    /\ UNCHANGED <<otherVars, cancelled>>
    /\ UNCHANGED <<path, streamCfg, body, chat, modelCreated, client, closeCount,
                   transcript, modelInput, modelCalls, toolInvocations, calls,
                   pending, toolOut, completed, fragments, finalResult, err,
                   thrown, promptIdx, exitCode>>

(***************************************************************************)
(* The caller goes away.                                                   *)
(***************************************************************************)
\* The client of a request disconnects while its handler runs. The handlers
\* register no listener on req or res and pass no signal to stream or invoke:
\* nothing of the run changes.
Cancel ==
    /\ path \in {"direct", "mcp"}
    /\ pc \notin {"done", "dead"}
    /\ ~cancelled
    /\ cancelled' = TRUE
    /\ UNCHANGED otherVars
    /\ UNCHANGED <<path, streamCfg, body, pc, chat, modelCreated, client, closeCount,
                   transcript, node, modelInput, modelCalls, toolInvocations,
                   calls, pending, toolOut, completed, fragments, finalResult,
                   err, res, thrown, promptIdx, exitCode>>

Next ==
    \/ Dispatch
    \/ AcquireDirect
    \/ DirectStreamOpen
    \/ DirectStreamChunk
    \/ DirectStreamEnd
    \/ DirectStreamFail
    \/ DirectInvoke
    \/ AcquireMcp
    \/ McpBegin
    \/ LlmNode
    \/ ToolsStart
    \/ \E i \in 1..(MaxToolCalls + 1) : ToolComplete(i)
    \/ ToolsJoin
    \/ McpDone
    \/ McpFailed
    \/ McpFinally
    \/ HandlerRejected
    \/ ExInit
    \/ ExSetup
    \/ ExPrompt
    \/ ExPromptDone
    \/ ExFailed
    \/ ExFinally
    \/ ListModels
    \/ ModelNeverAnswers

Spec == Init /\ [][Next]_vars

\* The runs in which the caller may disconnect.
CancelNext ==
    \/ Next
    \/ Cancel

CancelSpec == Init /\ [][CancelNext]_vars


(***************************************************************************)
(* Concurrent sessions: several requests of performMCPModelChat in flight  *)
(* at once, and the prompts of runExample on its one checkpointer.         *)
(***************************************************************************)
NumSessions == 2

Sessions == 1..NumSessions

\* A message, with the session (or the prompt) that put it into a transcript.
OwnedMsg(role, content, owner) == [role |-> role, content |-> content, owner |-> owner]

\* One client object kept at module level and handed to every request.
NewClientShared(heap) == 1

\* new MultiServerMCPClient(config): an object of its own on every call.
NewClient(heap) == Len(heap) + 1

\* The locals of a request's handler: chat ({agent, client}) and lcMessages.
SessionStart ==
    [pc |-> "acquire", chat |-> "none", client |-> 0, transcript |-> <<>>,
     modelInput |-> <<>>, turns |-> 0]

ConcInit ==
    /\ path = "mcp"
    /\ streamCfg = FALSE
    /\ body = [isArray |-> TRUE, items |-> <<>>]
    /\ pc = "concurrent"
    /\ InitRun
    /\ NoToolServer
    /\ NoAppShell
    /\ NoChatUI
    /\ clients = <<>>
    /\ sess = [s \in Sessions |-> SessionStart]
    /\ ex = [idx |-> 1, threads |-> <<>>, saved |-> [t \in 1..NumPrompts |-> <<>>],
             input |-> <<>>]

\* const chat = await ModelWithMCPFile(modelConfig, mcpConfig); lcMessages
SAcquire(s) ==
    /\ sess[s].pc = "acquire"
    /\ \E outcome \in AcquireOutcomes :
         LET id == NewClient(clients)
         IN  /\ clients' = IF outcome = "clientThrows" THEN clients
                           ELSE IF id > Len(clients) THEN Append(clients, "open")
                           ELSE [clients EXCEPT ![id] = "open"]
             /\ sess' = [sess EXCEPT ![s] =
                          [@ EXCEPT !.chat = IF outcome = "ok" THEN "agent" ELSE "null",
                                    !.client = IF outcome = "ok" THEN id ELSE 0,
                                    !.transcript = <<OwnedMsg("human", "q", s)>>,
                                    !.pc = IF outcome = "ok" THEN "llm" ELSE "dead"]]
    /\ UNCHANGED <<handlerVars, ui, tool, shell, ex>>

\* The agent node of the session's run: the model is called on the session's messages.
SLlm(s) ==
    /\ sess[s].pc = "llm"
    /\ \E reply \in {"ok", "run", "boom"} :
         /\ reply = "run" => sess[s].turns + 1 < MaxTurns
         /\ sess' = [sess EXCEPT ![s] =
                      [@ EXCEPT !.modelInput = sess[s].transcript,
                                !.turns = @ + 1,
                                !.transcript = IF reply = "boom" THEN @
                                               ELSE Append(@, OwnedMsg("ai", reply, s)),
                                !.pc = IF reply = "run" THEN "tools" ELSE "finally"]]
    /\ UNCHANGED <<handlerVars, ui, tool, shell, clients, ex>>

\* The tools node of the session's run: the tool is called through the session's client.
STools(s) ==
    /\ sess[s].pc = "tools"
    /\ LET ok == clients[sess[s].client] = "open"
       IN  sess' = [sess EXCEPT ![s] =
                     [@ EXCEPT !.transcript =
                                 Append(@, OwnedMsg("tool", IF ok THEN ToolOkContent
                                                            ELSE ToolErrorContent, s)),
                               !.pc = "llm"]]
    /\ UNCHANGED <<handlerVars, ui, tool, shell, clients, ex>>

\* finally { if (chat.client) await chat.client.close(); }
SFinally(s) ==
    /\ sess[s].pc = "finally"
    /\ clients' = [clients EXCEPT ![sess[s].client] = "closed"]
    /\ sess' = [sess EXCEPT ![s] = [@ EXCEPT !.pc = "done"]]
    /\ UNCHANGED <<handlerVars, ui, tool, shell, ex>>

\* One thread id for every prompt.
ThreadIdFixed(used) == 1

\* `thread-${Date.now()}-${Math.random().toString(36).substr(2, 9)}`: a new id.
ThreadId(used) == Len(used) + 1

\* app.invoke({ messages: [new HumanMessage(example.query)] }, threadConfig): the
\* checkpointer (MemorySaver) restores the thread's messages, the input is added,
\* the model is called on them, and the thread's messages are saved.
EPrompt ==
    /\ ex.idx <= NumPrompts
    /\ LET tid == ThreadId(ex.threads)
           state == Append(ex.saved[tid], OwnedMsg("human", Query(ex.idx), ex.idx))
       IN  ex' = [idx |-> ex.idx + 1,
                  threads |-> Append(ex.threads, tid),
                  saved |-> [ex.saved EXCEPT ![tid] = Append(state, OwnedMsg("ai", "ok", ex.idx))],
                  input |-> state]
    /\ UNCHANGED <<handlerVars, ui, tool, shell, clients, sess>>

ConcNext ==
    \/ \E s \in Sessions : SAcquire(s)
    \/ \E s \in Sessions : SLlm(s)
    \/ \E s \in Sessions : STools(s)
    \/ \E s \in Sessions : SFinally(s)
    \/ EPrompt

ConcSpec == ConcInit /\ [][ConcNext]_vars


(***************************************************************************)
(* The chat UI: App (system message dialog) and the ChatUI component.      *)
(***************************************************************************)
MaxChat == 5
MaxConvLen == 2

\* The texts the system message dialog can save.
SystemTexts == {"", " ", "A", "A ", "B"}

\* String.prototype.trim on the texts above.
Trim(text) ==
    CASE text = " " -> ""
      [] text = "A " -> "A"
      [] OTHER -> text

UiMsg(role, content) == [role |-> role, content |-> content]

\* useState(() => systemMessage && systemMessage.trim() ? [{system}] : [])
InitialMessages(systemMessage) ==
    IF Trim(systemMessage) # "" THEN <<UiMsg("system", Trim(systemMessage))>> ELSE <<>>

\* An effect that swaps the first element and keeps the rest of the chat.
SystemEffectKeepChat(msgs, systemMessage) ==
    IF Trim(systemMessage) # "" /\ Len(msgs) > 0
    THEN <<UiMsg("system", Trim(systemMessage))>> \o Tail(msgs)
    ELSE InitialMessages(systemMessage)

\* React.useEffect(() => setMessages(msgs => ...), [systemMessage])
SystemEffect(msgs, systemMessage) ==
    IF Trim(systemMessage) # ""
    THEN IF \/ Len(msgs) = 0
            \/ msgs[1].role # "system"
            \/ msgs[1].content # Trim(systemMessage)
         THEN <<UiMsg("system", Trim(systemMessage))>>
         ELSE msgs
    ELSE IF Len(msgs) > 0 /\ msgs[1].role = "system" THEN Tail(msgs) ELSE msgs

\* handleSend: let baseMessages = messages; if (systemMessage ... ) baseMessages = [...]
BaseMessages(msgs, systemMessage) ==
    IF Trim(systemMessage) # "" /\ (Len(msgs) = 0 \/ msgs[1].role # "system")
    THEN <<UiMsg("system", Trim(systemMessage))>>
    ELSE msgs

NoRequest == [messages |-> <<>>, mcpConfig |-> "none"]

\* ModelConfig of the server, as GET /api/config serves it in "config".
ModelConfigs == [stream : BOOLEAN, streaming : BOOLEAN]

\* setConfig(data) with the answer of /api/config.
ServedConfig(ModelConfig) == [config |-> ModelConfig]

\* const isStreaming = config && config.config && (config.config.stream || ...)
IsStreaming(config) == config.config.stream \/ config.config.streaming

\* if (ModelConfig.stream) { chunked text } else { res.json({ reply }) }
ServerMode(ModelConfig) == IF ModelConfig.stream THEN "text" ELSE "json"

\* The body of a JSON reply, as a reader of the raw response sees it.
JsonBody == "{\"reply\":\"ok\"}"

\* The values reader.read() can yield next, by what the server sends.
ServerChunks(mode, fullText) ==
    IF mode = "text"
    THEN {chunk \in {"He", "llo"} : Len(fullText) + Len(chunk) <= 5}
    ELSE IF fullText = "" THEN {JsonBody} ELSE {}

UIInit ==
    /\ path = "direct"
    /\ streamCfg = FALSE
    /\ body = [isArray |-> TRUE, items |-> <<>>]
    /\ pc = "ui"
    /\ InitRun
    /\ NoToolServer
    /\ NoAppShell
    /\ NoSessions
    /\ \E systemMessage \in SystemTexts, useMCP \in BOOLEAN,
          ModelConfig \in ModelConfigs :
         ui = [pc |-> "idle",
               systemMessage |-> systemMessage,
               messages |-> InitialMessages(systemMessage),
               loading |-> FALSE,
               inFlight |-> 0,
               isStreaming |-> IsStreaming(ServedConfig(ModelConfig)),
               serverMode |-> ServerMode(ModelConfig),
               received |-> "none",
               useMCP |-> useMCP,
               request |-> NoRequest,
               fullText |-> ""]

\* The Save button of the system message dialog: setSystemMessage(draft), and
\* with it the effect of ChatUI on [systemMessage].
SaveSystemMessage ==
    /\ ui.pc # "none"
    /\ \E draft \in SystemTexts :
         /\ draft # ui.systemMessage
         /\ ui' = [ui EXCEPT !.systemMessage = draft,
                             !.messages = SystemEffect(ui.messages, draft)]
    /\ UNCHANGED <<handlerVars, clients, sess, ex, tool, shell>>

\* A send button that is never disabled.
SendAlwaysEnabled(loading) == TRUE

\* disabled={loading} on the input field and the button; Enter && !loading.
SendEnabled(loading) == ~loading

\* handleSend up to the fetch; sendContent gets ' /no_think' for some providers.
HandleSend ==
    /\ ui.pc # "none"
    /\ SendEnabled(ui.loading)
    /\ Len(ui.messages) + 2 <= MaxChat
    /\ \E noThink \in BOOLEAN :
         LET userMessage == UiMsg("user", "hi")
             sendMessage == UiMsg("user", IF noThink THEN "hi /no_think" ELSE "hi")
             baseMessages == BaseMessages(ui.messages, ui.systemMessage)
         IN  ui' = [ui EXCEPT
                      !.messages = Append(baseMessages, userMessage),
                      !.loading = TRUE,
                      !.inFlight = @ + 1,
                      !.fullText = "",
                      !.received = "none",
                      !.request =
                        IF ui.isStreaming
                        THEN [messages |-> Append(baseMessages, sendMessage),
                              mcpConfig |-> IF ui.useMCP THEN "mcpConfig" ELSE "undefined"]
                        ELSE [messages |-> Append(baseMessages, userMessage),
                              mcpConfig |-> "undefined"],
                      !.pc = "fetch"]
    /\ UNCHANGED <<handlerVars, clients, sess, ex, tool, shell>>

\* catch (err) { setMessages(msgs => [...msgs, {assistant, 'Error: ...'}]) } finally
FetchFailed ==
    /\ ui.pc \in {"fetch", "reading"}
    /\ ui' = [ui EXCEPT !.messages = Append(@, UiMsg("assistant", "Error: failed")),
                        !.loading = FALSE,
                        !.inFlight = @ - 1,
                        !.fullText = "",
                        !.pc = "idle"]
    /\ UNCHANGED <<handlerVars, clients, sess, ex, tool, shell>>

\* Streaming: the response arrived; setMessages(msgs => [...msgs, {assistant, ''}])
StreamBegin ==
    /\ ui.pc = "fetch"
    /\ ui.isStreaming
    /\ ui' = [ui EXCEPT !.messages = Append(@, UiMsg("assistant", "")),
                        !.received = ui.serverMode,
                        !.pc = "reading"]
    /\ UNCHANGED <<handlerVars, clients, sess, ex, tool, shell>>

\* updated[updated.length - 1] = {assistant, fullText}
ReplaceLast(msgs, m) ==
    IF Len(msgs) = 0 THEN msgs ELSE [msgs EXCEPT ![Len(msgs)] = m]

\* One reader.read() with a value.
StreamRead ==
    /\ ui.pc = "reading"
    /\ \E chunk \in ServerChunks(ui.received, ui.fullText) :
         /\ ui' = [ui EXCEPT !.fullText = @ \o chunk,
                             !.messages = ReplaceLast(@, UiMsg("assistant", ui.fullText \o chunk))]
    /\ UNCHANGED <<handlerVars, clients, sess, ex, tool, shell>>

\* reader.read() reports done; finally { setLoading(false); setStreamedText('') }
StreamDone ==
    /\ ui.pc = "reading"
    /\ ui' = [ui EXCEPT !.loading = FALSE, !.inFlight = @ - 1, !.fullText = "",
                        !.pc = "idle"]
    /\ UNCHANGED <<handlerVars, clients, sess, ex, tool, shell>>

\* Non-streaming: const data = await response.json(); data.reply || '[No reply]'
ReplyArrived ==
    /\ ui.pc = "fetch"
    /\ ~ui.isStreaming
    /\ ui.serverMode = "json"
    /\ \E reply \in {"", "ok"} :
         ui' = [ui EXCEPT
                  !.messages = Append(@, UiMsg("assistant",
                                               IF reply = "" THEN "[No reply]" ELSE reply)),
                  !.received = "json",
                  !.loading = FALSE,
                  !.inFlight = @ - 1,
                  !.pc = "idle"]
    /\ UNCHANGED <<handlerVars, clients, sess, ex, tool, shell>>

UINext ==
    \/ SaveSystemMessage
    \/ HandleSend
    \/ FetchFailed
    \/ StreamBegin
    \/ StreamRead
    \/ StreamDone
    \/ ReplyArrived

UISpec == UIInit /\ [][UINext]_vars


(***************************************************************************)
(* The orchestration state of section 4.1, read off the run.               *)
(***************************************************************************)
OrchState ==
    CASE node = "llm" -> "AwaitingModel"
      [] node = "tools" -> "AwaitingTools"
      [] node = "end" -> "Done"
      [] node = "failed" -> "Failed"
      [] OTHER -> "NotStarted"

\* The transcript the run started from.
InputTranscript ==
    IF path = "example" THEN <<HumanMessage(Query(promptIdx))>> ELSE LcMessages(body.items)

NoToolCallRequested == \A i \in 1..Len(transcript) : transcript[i].tool_calls = <<>>

AgentRun == pc = "graph" \/ (path = "mcp" /\ pc \in {"mcp_finally", "done", "threw", "dead"})

(***************************************************************************)
(* C1: a run in which no tool call is requested makes exactly one Model    *)
(* Invoker call and no tool invocation; once that call has answered the    *)
(* run is Done, and the transcript of an agent run is its input followed   *)
(* by exactly one assistant message (the direct path keeps its input and   *)
(* holds the one answer).                                                  *)
(***************************************************************************)
C1_NoToolsOneModelCall ==
    /\ path = "direct" => /\ toolInvocations = 0
                          /\ modelCalls <= 1
                          /\ transcript \in {<<>>, LcMessages(body.items)}
                          /\ OrchState = "Done" => modelCalls = 1
    /\ (path # "direct" /\ NoToolCallRequested) =>
          /\ toolInvocations = 0
          /\ modelCalls <= 1
          /\ (AgentRun /\ modelCalls = 1) => OrchState \in {"Done", "Failed"}
          /\ (AgentRun /\ OrchState = "Done") =>
                /\ modelCalls = 1
                /\ Len(transcript) = Len(InputTranscript) + 1
                /\ SubSeq(transcript, 1, Len(InputTranscript)) = InputTranscript
                /\ transcript[Len(transcript)].role = "ai"

\* Scenario A on the agent: one user message, one model call, Done.
C1_Witness ==
    /\ path = "mcp"
    /\ pc = "done"
    /\ OrchState = "Done"
    /\ modelCalls = 1
    /\ toolInvocations = 0
    /\ transcript = <<HumanMessage("q"), AIMessage("ok")>>

(***************************************************************************)
(* C2: every assistant message of the transcript with N >= 1 tool calls is *)
(* followed by exactly N tool messages answering its calls in the order of *)
(* the requests, whatever order the calls completed in; until they are     *)
(* appended the run stays in the tools node, so no Model Invoker call      *)
(* starts before.                                                          *)
(***************************************************************************)
ResultsFollow(p) ==
    LET n == Len(transcript[p].tool_calls)
    IN  /\ Len(transcript) >= p + n
        /\ \A i \in 1..n :
              /\ transcript[p + i].role = "tool"
              /\ transcript[p + i].tool_call_id = transcript[p].tool_calls[i].id
              /\ transcript[p + i].name = transcript[p].tool_calls[i].name
        /\ Len(transcript) > p + n => transcript[p + n + 1].role # "tool"

ModelAnswered ==
    /\ pc = "graph"
    /\ modelCalls' = modelCalls + 1
    /\ Len(transcript') = Len(transcript) + 1

C3_RouterStep ==
    /\ ModelAnswered =>
          /\ (node' = "tools") <=> (Len(transcript'[Len(transcript')].tool_calls) >= 1)
          /\ (node' = "end") <=> (transcript'[Len(transcript')].tool_calls = <<>>)
    /\ (node = "tools" /\ node' # "tools") => node' = "llm"
    /\ node \in {"end", "failed"} =>
          /\ modelCalls' <= modelCalls
          /\ toolInvocations' <= toolInvocations

C3_Routing == [][C3_RouterStep]_vars

\* The router went to the tools node and the tools node came back to the llm node.
C3_Witness ==
    /\ node = "llm"
    /\ modelCalls = 1
    /\ toolInvocations = 1
    /\ transcript[Len(transcript)].role = "tool"

(***************************************************************************)
(* C4: a failed tool invocation does not fail the run: the tools node is   *)
(* left for the llm node only, with the error message of every failed call *)
(* appended to the transcript, and a run is Failed only by a Model Invoker *)
(* error.                                                                  *)
(***************************************************************************)
C4_ToolStep ==
    /\ node = "tools" => node' \in {"tools", "llm"}
    /\ (node = "tools" /\ node' = "llm") =>
          \A i \in 1..Len(toolOut) :
             IsErrorResult(toolOut[i]) =>
                /\ Len(transcript') >= Len(transcript) + i
                /\ transcript'[Len(transcript) + i] = toolOut[i]
                /\ IsErrorResult(transcript'[Len(transcript) + i])
    /\ (node # "failed" /\ node' = "failed") => node \in {"llm", "idle"}

Finished == pc \in {"done", "dead", "exited"}

ModelFailed == OrchState = "Failed" /\ err \in Errors

(***************************************************************************)
(* C5: when a run in which an MCP client was created is over,              *)
(* client.close() has been called exactly once.                            *)
(***************************************************************************)
C5_ClosedExactlyOnce ==
    /\ closeCount <= 1
    /\ (Finished /\ client # "none") => closeCount = 1

(***************************************************************************)
(* C6: a request whose messages are no array or an empty array is answered *)
(* with 400 and nothing else happens: no model instance, no MCP client, no *)
(* model or tool invocation, nothing written to the stream.                *)
(***************************************************************************)
C6_InvalidRejected ==
    (path \in {"direct", "mcp"} /\ InvalidBody(body)) =>
        /\ ~modelCreated
        /\ chat = "none"
        /\ client = "none"
        /\ modelCalls = 0
        /\ toolInvocations = 0
        /\ OrchState = "NotStarted"
        /\ res.sink = <<>>
        /\ pc \in {"recv", "done"}
        /\ pc = "done" => (res.sentStatus = 400 /\ res.ended)

\* The empty array was answered with 400.
C6_Witness ==
    /\ path = "mcp"
    /\ body.isArray
    /\ body.items = <<>>
    /\ pc = "done"
    /\ res.sentStatus = 400

(***************************************************************************)
(* C7: after a Model Invoker failure the run is Failed with the error, no  *)
(* model or tool invocation follows, and the request is answered with the  *)
(* provider's 404 when the error carries it and with 500 otherwise.        *)
(***************************************************************************)
C7_ModelFailureReported ==
    (path \in {"direct", "mcp"} /\ Finished /\ ModelFailed) =>
        /\ pending = {}
        /\ res.sentStatus = CatchStatus(err)

(***************************************************************************)
(* C8: a request that ended in a model provider failure is answered with a *)
(* status outside 2xx, and a request has a 2xx status only when the        *)
(* orchestration reached Done. Stated of the requests whose handler        *)
(* returned.                                                               *)
(***************************************************************************)
Is2xx(code) == code >= 200 /\ code < 300

C8_FailureNot2xx ==
    (path \in {"direct", "mcp"} /\ pc = "done" /\ chat # "null") =>
        /\ ModelFailed => (res.sentStatus # 0 /\ ~Is2xx(res.sentStatus))
        /\ Is2xx(res.sentStatus) => OrchState = "Done"

(***************************************************************************)
(* C9: in a streamed turn of performModelChat the content of the merged    *)
(* message is the concatenation of the fragments' deltas in arrival order, *)
(* and so is the concatenation of the chunks written to the sink.          *)
(***************************************************************************)
C9_MergeIsConcatenation ==
    (path = "direct" /\ streamCfg) =>
        /\ finalResult.content = JoinContents(fragments)
        /\ JoinStrings(res.sink) = finalResult.content

\* Scenario C: fragments "He", "llo" merge into "Hello".
C9_Witness ==
    /\ path = "direct"
    /\ pc = "done"
    /\ OrchState = "Done"
    /\ res.sink = <<"He", "llo">>
    /\ finalResult.content = "Hello"

(***************************************************************************)
(* C10: the sink holds one chunk per consumed fragment, in arrival order,  *)
(* as soon as the fragment is consumed; nothing is written after end, and  *)
(* an ended sink does not change.                                          *)
(***************************************************************************)
\* What the loop of performMCPModelChat writes for a sequence of updates.
RECURSIVE Rendered(_)
Rendered(chunks) ==
    IF chunks = <<>> THEN <<>>
    ELSE (IF chunks[1].agent # <<>> THEN <<JoinContents(chunks[1].agent)>> ELSE <<>>)
         \o (IF chunks[1].tools # <<>> THEN <<JoinToolLines(chunks[1].tools)>> ELSE <<>>)
         \o Rendered(Tail(chunks))

C10_SinkState ==
    /\ ~res.lateWrite
    /\ (path = "direct" /\ streamCfg) =>
          res.sink = [i \in 1..Len(fragments) |-> fragments[i].content]
    /\ (path = "mcp" /\ streamCfg /\ chat = "agent") =>
          \/ res.sink = Rendered(fragments)
          \/ /\ OrchState = "Failed"
             /\ res.ended
             /\ res.sink = Append(Rendered(fragments), "Error: " \o err.message)

C10_SinkStep == res.ended => (res'.sink = res.sink /\ res'.ended)

C10_ForwardedOnceInOrder == []C10_SinkState /\ [][C10_SinkStep]_vars

\* Two fragments were forwarded in their order and the sink was ended.
C10_Witness ==
    /\ path = "direct"
    /\ pc = "done"
    /\ res.ended
    /\ Len(fragments) = 2
    /\ res.sink = <<"llo", "He">>


(***************************************************************************)
(* C11: concurrent sessions never share state. Every chat request has an   *)
(* MCP client object and a transcript of its own: every message a          *)
(* session's model call receives was put there by that session; a step     *)
(* that closes a client is the finally block of the session that holds     *)
(* it, so a session not in its finally block keeps its client as it was;   *)
(* and the prompts of runExample run on pairwise different thread ids, so  *)
(* the model input of a prompt holds that prompt's messages only.          *)
(***************************************************************************)
C11_OwnState ==
    /\ \A s, t \in Sessions :
         (s # t /\ sess[s].client # 0 /\ sess[t].client # 0)
           => sess[s].client # sess[t].client
    /\ \A s \in Sessions : \A i \in 1..Len(sess[s].modelInput) :
         sess[s].modelInput[i].owner = s
    /\ \A i, j \in 1..Len(ex.threads) : i # j => ex.threads[i] # ex.threads[j]
    /\ \A i \in 1..Len(ex.input) : ex.input[i].owner = Len(ex.threads)

C11_CloseStep ==
    \A t \in Sessions :
      (sess[t].client # 0 /\ sess[t].pc # "finally")
        => clients'[sess[t].client] = clients[sess[t].client]

C11_SessionsIsolated == []C11_OwnState /\ [][C11_CloseStep]_vars

\* One session has closed its client while another, between two model calls,
\* calls a tool through its own open client; runExample has run its prompts.
C11_Witness ==
    /\ sess[1].pc = "done"
    /\ sess[1].client # 0
    /\ clients[sess[1].client] = "closed"
    /\ sess[2].pc = "tools"
    /\ clients[sess[2].client] = "open"
    /\ Len(sess[2].modelInput) > 0
    /\ Len(ex.threads) = NumPrompts
    /\ Len(ex.input) > 0


(***************************************************************************)
(* C12: after the caller has cancelled (the client disconnected), no model *)
(* invocation and no tool invocation is started: in the tool-call loop the *)
(* counters of both stay as they are in every step taken after it.         *)
(***************************************************************************)
C12_CancelStep ==
    (cancelled /\ pc = "graph")
      => (modelCalls' = modelCalls /\ toolInvocations' = toolInvocations)

C12_CancellationHalts == [][C12_CancelStep]_vars


(***************************************************************************)
(* C13: the tool-call loop is cut by a maximum turn count of its own. The  *)
(* model of this environment asks for tools on its first MaxTurns - 1      *)
(* turns; a loop with a cap below that makes fewer than MaxTurns Model     *)
(* Invoker calls, whatever the model asks for.                             *)
(***************************************************************************)
C13_TurnsBounded == AgentRun => modelCalls < MaxTurns


(***************************************************************************)
(* C14: GET /api/models always answers: when its handler has returned the  *)
(* response is sent; it is 200 with the provider's model list when the     *)
(* list was fetched, and 500 when fetching it failed.                      *)
(***************************************************************************)
C14_ModelsAnswered ==
    (path = "models" /\ pc = "done")
      => /\ res.ended
         /\ node = "end" => (res.sentStatus = 200 /\ res.body = ModelList)
         /\ node = "failed" => res.sentStatus = 500


(***************************************************************************)
(* C15: in the chat UI, when a system message is set (its trimmed text is  *)
(* not empty), the body of every /api/chat request has it, trimmed, as the *)
(* first element of messages. Saving a system message whose trimmed text   *)
(* is not empty and differs from the one before resets the chat to the     *)
(* new system message alone; saving an empty one only drops a leading      *)
(* system message and keeps the rest of the chat; a change of white space  *)
(* only leaves a chat that begins with the system message as it is.        *)
(***************************************************************************)
C15_RequestStep ==
    (ui.pc = "idle" /\ ui'.pc = "fetch" /\ Trim(ui.systemMessage) # "")
      => /\ Len(ui'.request.messages) >= 2
         /\ ui'.request.messages[1] = UiMsg("system", Trim(ui.systemMessage))

C15_SystemChanged == ui.pc # "none" /\ ui'.systemMessage # ui.systemMessage

C15_ResetStep ==
    C15_SystemChanged =>
      LET first == UiMsg("system", Trim(ui'.systemMessage))
      IN  CASE Trim(ui'.systemMessage) = "" ->
                 ui'.messages = IF Len(ui.messages) > 0 /\ ui.messages[1].role = "system"
                                THEN Tail(ui.messages) ELSE ui.messages
            [] Trim(ui'.systemMessage) = Trim(ui.systemMessage) ->
                 ui'.messages = IF Len(ui.messages) > 0 /\ ui.messages[1] = first
                                THEN ui.messages ELSE <<first>>
            [] OTHER -> ui'.messages = <<first>>

C15_EveryChangeStep ==
    C15_SystemChanged => ui'.messages = <<UiMsg("system", Trim(ui'.systemMessage))>>

C16_ReleaseStep ==
    pc = "mcp_finally" => (thrown' = thrown /\ (~thrown => pc' = "done"))

C16_ReleaseNeverThrows == [][C16_ReleaseStep]_vars


(***************************************************************************)
(* C17: when acquiring the tool connection failed (ModelWithMCPFile        *)
(* answered null), the handler ends with no Model Invoker call and no tool *)
(* invocation made, and with a response that tells the caller the request  *)
(* failed: the response is complete and its status is not a 2xx.           *)
(***************************************************************************)
C17_AcquisitionFailureAborts ==
    (path = "mcp" /\ chat = "null" /\ Finished)
      => /\ modelCalls = 0
         /\ toolInvocations = 0
         /\ res.ended
         /\ ~Is2xx(res.sentStatus)


(***************************************************************************)
(* C18: a streamed run whose fragment sequence ends with an error after at *)
(* least one fragment was forwarded ends in Failed; the catch block leaves *)
(* the chunks already written where they are, does not answer with the     *)
(* partial message, and does not itself throw while reporting the error.   *)
(***************************************************************************)
C18_CatchStep ==
    \/ pc = "streaming" /\ node' = "failed"
    \/ path = "mcp" /\ pc = "graph" /\ node = "failed" /\ pc' = "mcp_finally"

C18_FailStep ==
    (streamCfg /\ Len(fragments) >= 1 /\ C18_CatchStep)
      => /\ node' = "failed"
         /\ Len(res'.sink) >= Len(res.sink)
         /\ SubSeq(res'.sink, 1, Len(res.sink)) = res.sink
         /\ res'.body = res.body
         /\ ~thrown'
         /\ pc' # "threw"

C18_MidStreamFailure == [][C18_FailStep]_vars


(***************************************************************************)
(* C19: no run stays suspended forever. Every invocation has a timeout of  *)
(* its own, so a run that has not ended always has a next step (an answer, *)
(* an error, or the timeout): in particular while a model invocation is    *)
(* not answered.                                                           *)
(***************************************************************************)
C19_NoRunSuspended ==
    (path \in {"direct", "mcp", "example"} /\ ~Finished) => ENABLED Next


(***************************************************************************)
(* C20: in non-streaming mode nothing is written to the sink at any time   *)
(* of the run, and the reply of a run that ended Done is the content of    *)
(* the one message the Model Invoker returned for the final turn.          *)
(***************************************************************************)
C20_NonStreamingReply ==
    (path \in {"direct", "mcp"} /\ ~streamCfg)
      => /\ res.sink = <<>>
         /\ (Finished /\ node = "end") =>
              /\ res.sentStatus = 200
              /\ res.body = IF path = "direct" THEN finalResult.content
                            ELSE transcript[Len(transcript)].content


(***************************************************************************)
(* C21: while a reply is streaming, a chunk only grows the assistant       *)
(* message: after the step that reads a chunk the list is as long as       *)
(* before, every message but the last is unchanged, and the last message   *)
(* has the role it had and its previous content with the chunk appended.   *)
(***************************************************************************)
C21_ChunkRead == ui.pc = "reading" /\ ui'.pc = "reading" /\ ui'.fullText # ui.fullText

C21_ChunkStep ==
    C21_ChunkRead =>
      LET n == Len(ui.messages)
      IN  /\ n >= 1
          /\ Len(ui'.messages) = n
          /\ \A i \in 1..(n - 1) : ui'.messages[i] = ui.messages[i]
          /\ ui'.messages[n].role = ui.messages[n].role
          /\ \E chunk \in {"He", "llo", JsonBody} :
               /\ ui'.fullText = ui.fullText \o chunk
               /\ ui'.messages[n].content = ui.messages[n].content \o chunk

C21_ContentOnlyGrows == [][C21_ChunkStep]_vars


(***************************************************************************)
(* C22: a validated /api/chat request whose handler has returned has its   *)
(* response completed exactly once (ended, nothing written after the end), *)
(* and the handler never raises an error once the response was started.    *)
(***************************************************************************)
C22_Validated == path \in {"direct", "mcp"} /\ ~InvalidBody(body)

\* The paths the claim lists: the run succeeded, or the provider failed.
C22_Answered == OrchState = "Done" \/ ModelFailed

C22_Completed ==
    (C22_Validated /\ C22_Answered /\ Finished) => (res.ended /\ ~res.lateWrite)

C22_RaiseStep ==
    (C22_Validated /\ C22_Answered' /\ pc # "threw" /\ pc' = "threw") => ~res'.headersSent

C22_ResponseCompletedOnce == []C22_Completed /\ [][C22_RaiseStep]_vars


(***************************************************************************)
(* C23: the chat UI and the server agree on the response mode: a response  *)
(* read by the UI was sent as a text stream exactly when the UI reads      *)
(* /api/chat responses as a text stream.                                   *)
(***************************************************************************)
C23_ModesAgree ==
    (ui.pc # "none" /\ ui.received # "none") => (ui.received = "text" <=> ui.isStreaming)


(***************************************************************************)
(* C24: in the chat UI at most one /api/chat request is in flight: a send  *)
(* starts only while loading is false, loading is true exactly while a     *)
(* request is in flight, and every step that finishes a request, with a    *)
(* reply or with an error, sets loading back to false.                     *)
(***************************************************************************)
C24_OneInFlight ==
    ui.pc # "none" =>
        /\ ui.inFlight <= 1
        /\ ui.loading <=> ui.inFlight = 1
        /\ ui.loading <=> ui.pc \in {"fetch", "reading"}

C24_SendStep ==
    /\ (ui.pc # "none" /\ ui'.inFlight > ui.inFlight) => (~ui.loading /\ ui'.loading)
    /\ (ui.pc # "none" /\ ui'.inFlight < ui.inFlight) => (ui.loading /\ ~ui'.loading)

C24_SingleRequest == []C24_OneInFlight /\ [][C24_SendStep]_vars

\* A request failed and loading is false again, with earlier turns in the chat.
C24_Witness ==
    /\ ui.pc = "idle"
    /\ ~ui.loading
    /\ ui.inFlight = 0
    /\ Len(ui.messages) >= 4
    /\ ui.messages[Len(ui.messages)].content = "Error: failed"


(***************************************************************************)
(* C25: in non-streaming MCP mode the reply of a run that ended Done is    *)
(* the concatenation, in transcript order, of the content of every message *)
(* of the final transcript: the caller's input messages first, then every  *)
(* assistant message and tool result up to the final assistant message.    *)
(***************************************************************************)
C25_Replied ==
    /\ path = "mcp"
    /\ ~streamCfg
    /\ node = "end"
    /\ pc \in {"mcp_finally", "done", "threw", "dead"}

\* The contents of ms[1..n], in order.
RECURSIVE C25_Concat(_, _)
C25_Concat(ms, n) ==
    IF n = 0 THEN "" ELSE C25_Concat(ms, n - 1) \o ms[n].content

ConvMsg == [role : Roles, content : {"q", "r"}]

ConvBodies == {[isArray |-> TRUE, items |-> s] : s \in SeqsUpTo(ConvMsg, MaxConvLen)}

ConvInit ==
    /\ path = "convert"
    /\ streamCfg = FALSE
    /\ body \in ConvBodies
    /\ pc = "conv_recv"
    /\ InitRun
    /\ NoToolServer
    /\ NoAppShell
    /\ NoSessions
    /\ NoChatUI

\* const lcMessages = messages.map(...)
Convert ==
    /\ pc = "conv_recv"
    /\ path = "convert"
    /\ transcript' = LcMessages(body.items)
    /\ pc' = "conv_done"
    /\ UNCHANGED <<otherVars, cancelled>>
    /\ UNCHANGED <<path, streamCfg, body, chat, modelCreated, client, closeCount,
                   node, modelInput, modelCalls, toolInvocations,
                   calls, pending, toolOut, completed, fragments, finalResult,
                   err, res, thrown, promptIdx, exitCode>>

ConvNext == Convert

ConvSpec == ConvInit /\ [][ConvNext]_vars

(***************************************************************************)
(* C26: the incoming message list is converted one to one, keeping length  *)
(* and order: a message becomes a human message exactly if its role is     *)
(* 'user', and a message of any other role, 'system' and 'tool' included,  *)
(* becomes an assistant message; the content is kept.                      *)
(***************************************************************************)
C26_ConvertedOneToOne ==
    (path = "convert" /\ pc = "conv_done") =>
        /\ Len(transcript) = Len(body.items)
        /\ \A i \in 1..Len(body.items) :
             /\ transcript[i].content = body.items[i].content
             /\ transcript[i].role = "human" <=> body.items[i].role = "user"
             /\ body.items[i].role # "user" => transcript[i].role = "ai"

\* A system message and a user message with different contents, converted.
C26_Witness ==
    /\ path = "convert"
    /\ pc = "conv_done"
    /\ Len(body.items) = 2
    /\ body.items[1] = [role |-> "system", content |-> "r"]
    /\ body.items[2] = [role |-> "user", content |-> "q"]
    /\ transcript = <<AIMessage("r"), HumanMessage("q")>>


(***************************************************************************)
(* C27: in the example agent the system message is put in front of the     *)
(* model input exactly when the transcript holds a single human message,   *)
(* which is the first model call of a run; it is never appended to the     *)
(* transcript, and every later model call of the run receives the          *)
(* transcript as it is, without the system message.                        *)
(***************************************************************************)
C27_CallStep ==
    (path = "example" /\ modelCalls' = modelCalls + 1) =>
        LET single == Len(transcript) = 1 /\ transcript[1].role = "human"
        IN  /\ single <=> modelCalls = 0
            /\ modelInput' = IF single THEN <<SystemMessage("sys")>> \o transcript
                                        ELSE transcript
            /\ ~single => \A i \in 1..Len(modelInput') : modelInput'[i].role # "system"
            /\ \A i \in 1..Len(transcript') : transcript'[i].role # "system"

C27_SystemMessageOnFirstCall == [][C27_CallStep]_vars

\* A second model call of a run, after tool results, without the system message.
C27_Witness ==
    /\ path = "example"
    /\ modelCalls = 2
    /\ Len(modelInput) >= 3
    /\ modelInput[1].role = "human"
    /\ \E i \in 1..Len(modelInput) : modelInput[i].role = "tool"


(***************************************************************************)
(* ToolSpec: the CallToolRequestSchema handler of the custom MCP servers   *)
(* (utility, wikipedia, jira), handling one call.                          *)
(***************************************************************************)
Servers == {"utility", "wikipedia", "jira"}

JiraTools == {"jira_issue", "jira_sprint", "jira_active_sprint", "jira_sprint_issues",
              "jira_active_sprint_issues"}

\* The tool names the handler of a server has a branch for.
Registered(server) ==
    CASE server = "utility" -> {"get_time"}
      [] server = "wikipedia" -> {"search_wikipedia"}
      [] server = "jira" -> JiraTools

RequestedNames == {"get_time", "search_wikipedia", "unknown_tool"} \cup JiraTools

\* request.params.arguments: absent, {} or with the tool's parameter.
Arguments == {"undefined", "empty", "given"}

\* The tools whose branch tests a parameter: if (!args.query), if (!args.sprintId)
RequiredParam(name) ==
    name \in {"search_wikipedia", "jira_issue", "jira_sprint", "jira_sprint_issues"}

NoThrow == [kind |-> "none", code |-> "none"]

\* new McpError(code, ...): McpError extends Error
McpError(code) == [kind |-> "McpError", code |-> code]

\* A TypeError, or the rejection of a request of the tool.
JsError == [kind |-> "Error", code |-> "none"]

\* error instanceof Error
InstanceOfError(e) == e.kind \in {"McpError", "Error"}

\* catch (error) { if (error instanceof Error) throw new McpError(InternalError) ... throw error }
CatchCode(e) == IF InstanceOfError(e) THEN "InternalError" ELSE e.code

CallToolRequest(server, name, args) ==
    [pc |-> "call", server |-> server, name |-> name, args |-> args,
     thrown |-> NoThrow, answer |-> "none", code |-> "none", text |-> "",
     fetches |-> 0, httpFailed |-> FALSE]

ToolInit ==
    /\ path = "toolserver"
    /\ streamCfg = FALSE
    /\ body = [isArray |-> TRUE, items |-> <<>>]
    /\ pc = "tool"
    /\ InitRun
    /\ NoSessions
    /\ NoChatUI
    /\ NoAppShell
    /\ \E server \in Servers, name \in RequestedNames, args \in Arguments :
         tool = CallToolRequest(server, name, args)

\* return { content: [{ type: 'text', text }] }
ToolReturns(t, text) == [t EXCEPT !.pc = "returned", !.answer = "payload", !.text = text]

ToolThrows(t, e) == [t EXCEPT !.pc = "catch", !.thrown = e]

\* The try block up to the first request of the tool.
CallTool ==
    /\ tool.pc = "call"
    /\ tool' =
         IF tool.name \notin Registered(tool.server)
         THEN ToolThrows(tool, McpError("MethodNotFound"))
         ELSE IF tool.name = "get_time" THEN ToolReturns(tool, "time")
         ELSE IF tool.args = "undefined" THEN ToolThrows(tool, JsError)
         ELSE IF RequiredParam(tool.name) /\ tool.args = "empty"
         THEN ToolThrows(tool, McpError("InvalidParams"))
         ELSE [tool EXCEPT !.pc = "upstream"]
    /\ UNCHANGED <<handlerVars, clients, sess, ex, ui, shell>>

\* The helpers of the jira server whose request has a .catch of its own at
\* this point: all but the first request of getActiveSprintIssues.
RequestCaught(t) == t.name # "jira_active_sprint_issues" \/ t.fetches = 1

\* A request of the tool (Wikipedia, the Jira REST API) answers or fails.
Upstream ==
    /\ tool.pc = "upstream"
    /\ \E ok \in BOOLEAN :
         tool' =
           IF tool.server = "wikipedia"
           THEN IF ok THEN ToolReturns(tool, "data") ELSE ToolThrows(tool, JsError)
           ELSE IF ok
                THEN IF tool.name = "jira_active_sprint_issues" /\ tool.fetches = 0
                     THEN [tool EXCEPT !.fetches = 1]
                     ELSE ToolReturns(tool, "data")
                ELSE IF RequestCaught(tool)
                     THEN ToolReturns([tool EXCEPT !.httpFailed = TRUE], "error text")
                     ELSE ToolThrows([tool EXCEPT !.httpFailed = TRUE], JsError)
    /\ UNCHANGED <<handlerVars, clients, sess, ex, ui, shell>>

\* The catch block of the handler: the call is answered with an error.
CatchError ==
    /\ tool.pc = "catch"
    /\ tool' = [tool EXCEPT !.pc = "failed", !.answer = "error",
                            !.code = CatchCode(tool.thrown)]
    /\ UNCHANGED <<handlerVars, clients, sess, ex, ui, shell>>

ToolNext ==
    \/ CallTool
    \/ Upstream
    \/ CatchError

ToolSpec == ToolInit /\ [][ToolNext]_vars

(***************************************************************************)
(* C28: a tool server answers a call to a tool name it does not register   *)
(* with MethodNotFound and a call missing a required parameter with        *)
(* InvalidParams; InternalError is the code of the other failures only,    *)
(* and a failed call carries no success payload.                           *)
(***************************************************************************)
C28_MissingParam(t) ==
    t.name \in Registered(t.server) /\ RequiredParam(t.name) /\ t.args # "given"

C28_ErrorCodes ==
    tool.pc = "failed" =>
        /\ tool.answer = "error"
        /\ tool.text = ""
        /\ tool.name \notin Registered(tool.server) => tool.code = "MethodNotFound"
        /\ C28_MissingParam(tool) => tool.code = "InvalidParams"
        /\ tool.code = "InternalError" =>
             (tool.name \in Registered(tool.server) /\ ~C28_MissingParam(tool))

(***************************************************************************)
(* C29: for every Jira tool a failing Jira HTTP request never makes the    *)
(* tool call fail: the call returns a success payload whose text describes *)
(* the error.                                                              *)
(***************************************************************************)
C29_JiraFailureIsPayload ==
    (tool.pc \in {"returned", "failed"} /\ tool.server = "jira"
        /\ tool.name \in JiraTools /\ tool.httpFailed)
      => (tool.pc = "returned" /\ tool.answer = "payload" /\ tool.text = "error text")


(***************************************************************************)
(* ShellSpec: the MCP configuration of the app shell: the default          *)
(* configuration fetched from /api/mcpconfig, the active configuration     *)
(* handed to the chat, and the servers selected in the dialog.             *)
(***************************************************************************)
\* The keys of mcpServers a backend may serve.
ServerKeys == {"filesystem", "jira", "wikipedia"}

\* The keys localStorage may hold: one of them from an older configuration.
StoredKeys == ServerKeys \cup {"stale"}

\* The mcpServers of the configuration GET /api/mcpconfig may answer with.
DefaultConfigs == (SUBSET ServerKeys) \ {{}}

\* useState(null)
NullConfig == [loaded |-> FALSE, mcpServers |-> {}]

McpConfig(servers) == [loaded |-> TRUE, mcpServers |-> servers]

\* for (const key of selected) if (mcpServers[key]) filteredServers[key] = ...
FilterServers(selected, mcpServers) == selected \cap mcpServers

\* The effect on [mcpConfig]: the selection is cut down to the active servers.
SelectionEffect(selected, config) ==
    IF ~config.loaded THEN selected
    ELSE LET filtered == selected \cap config.mcpServers
         IN  IF filtered # {} THEN filtered ELSE {"filesystem"}

\* prev.includes(key) ? prev.filter(k => k !== key) : [...prev, key]
Toggle(selected, key) ==
    IF key \in selected THEN selected \ {key} ELSE selected \cup {key}

ShellInit ==
    /\ path = "shell"
    /\ streamCfg = FALSE
    /\ body = [isArray |-> TRUE, items |-> <<>>]
    /\ pc = "shell"
    /\ InitRun
    /\ NoSessions
    /\ NoChatUI
    /\ NoToolServer
    /\ \E stored \in (SUBSET StoredKeys) \ {{}} :
         shell = [pc |-> "mounted", defaultMCPConfig |-> NullConfig,
                  mcpConfig |-> NullConfig, selectedMcpServers |-> stored,
                  mcpDialogOpen |-> FALSE]

\* fetchMcpConfig: the default configuration arrives, or the fetch fails.
FetchMcpConfig ==
    /\ shell.pc = "mounted"
    /\ \/ \E data \in DefaultConfigs :
            LET active == McpConfig(FilterServers(shell.selectedMcpServers, data))
            IN  shell' = [shell EXCEPT
                            !.pc = "loaded",
                            !.defaultMCPConfig = McpConfig(data),
                            !.mcpConfig = active,
                            !.selectedMcpServers = SelectionEffect(@, active)]
       \/ shell' = [shell EXCEPT !.pc = "loadFailed"]
    /\ UNCHANGED <<handlerVars, clients, sess, ex, ui, tool>>

\* onClick={() => setMcpDialogOpen(true)}
OpenMcpDialog ==
    /\ shell.pc \in {"mounted", "loaded", "loadFailed"}
    /\ ~shell.mcpDialogOpen
    /\ shell' = [shell EXCEPT !.mcpDialogOpen = TRUE]
    /\ UNCHANGED <<handlerVars, clients, sess, ex, ui, tool>>

\* Cancel, or onClose of the dialog.
CancelMcpDialog ==
    /\ shell.pc \in {"mounted", "loaded", "loadFailed"}
    /\ shell.mcpDialogOpen
    /\ shell' = [shell EXCEPT !.mcpDialogOpen = FALSE]
    /\ UNCHANGED <<handlerVars, clients, sess, ex, ui, tool>>

\* handleMcpServerToggle(key): the dialog lists the keys of the default config.
McpServerToggle ==
    /\ shell.pc = "loaded"
    /\ shell.mcpDialogOpen
    /\ \E key \in shell.defaultMCPConfig.mcpServers :
         shell' = [shell EXCEPT !.selectedMcpServers = Toggle(@, key)]
    /\ UNCHANGED <<handlerVars, clients, sess, ex, ui, tool>>

\* handleSaveMcpConfig, and with it the effect on [mcpConfig].
SaveMcpConfig ==
    /\ shell.pc = "loaded"
    /\ shell.mcpDialogOpen
    /\ LET active == McpConfig(FilterServers(shell.selectedMcpServers,
                                             shell.defaultMCPConfig.mcpServers))
       IN  shell' = [shell EXCEPT
                       !.mcpConfig = active,
                       !.selectedMcpServers = SelectionEffect(@, active),
                       !.mcpDialogOpen = FALSE]
    /\ UNCHANGED <<handlerVars, clients, sess, ex, ui, tool>>

ShellNext ==
    \/ FetchMcpConfig
    \/ OpenMcpDialog
    \/ CancelMcpDialog
    \/ McpServerToggle
    \/ SaveMcpConfig

ShellSpec == ShellInit /\ [][ShellNext]_vars

(***************************************************************************)
(* C30: in the app shell, after any sequence of toggle, save, cancel and   *)
(* config-load actions, the servers of the active MCP configuration are a  *)
(* subset of the servers of the default configuration; after Save they are *)
(* the selected servers that exist in the default configuration; and the   *)
(* list of selected servers is never empty.                                *)
(***************************************************************************)
C30_ActiveWithinDefault ==
    shell.pc # "none" =>
        /\ shell.mcpConfig.mcpServers \subseteq shell.defaultMCPConfig.mcpServers
        /\ shell.selectedMcpServers # {}

C30_SaveStep ==
    (shell.pc = "loaded" /\ shell.mcpDialogOpen /\ ~shell'.mcpDialogOpen
        /\ shell'.mcpConfig # shell.mcpConfig)
      => shell'.mcpConfig.mcpServers =
           shell.selectedMcpServers \cap shell.defaultMCPConfig.mcpServers

C30_McpConfigConsistent == []C30_ActiveWithinDefault /\ [][C30_SaveStep]_vars

=============================================================================
